---- MODULE Spec2Model ----
(***************************************************************************)
(* Event Player (serve/event/Player.js), WatchDog and Block (serve/orion.js)*)
(* of orion-core as a state machine.                                       *)
(*                                                                         *)
(* JavaScript is single threaded: every action below is one handler run to *)
(* completion (a timer callback, a call made by user code).  The only      *)
(* place where a handler is split is where it calls user code: the fn of a *)
(* callback playable and the user function of a Block.  While such a       *)
(* function executes (inFn / block.calling) the only enabled actions are   *)
(* the calls that user code makes into the Player and its return or throw. *)
(***************************************************************************)
EXTENDS Integers, Sequences, FiniteSets, TLC

VARIABLES
    events,            \* Player.events: the queue, ids of playables
    pendingEvent,      \* Player.pendingEvent: id, 0 is null
    pendingFn,         \* Player.pendingFn: NoFn is false, otherwise a number
    paused,            \* Player.paused
    eventTimer,        \* Player.eventTimer: handle of the last ST.defer, 0 if none
    active,            \* Driver.active
    nextId,            \* Player._nextId
    playables,         \* every ST.event.Playable created so far, by id
    timers,            \* outstanding ST.defer timers made by playEventSoon
    watchDogs,         \* WatchDogs of playFn whose callback is still set
    inFn,              \* the callback playable whose fn is executing, and its WatchDog
    fired,             \* events fired / callbacks reported by the last handler
    now,               \* +new Date()
    handleExceptions,  \* ST.options.handleExceptions
    block,             \* the ST.Block under test and its WatchDog
    els,               \* the ST.Element objects created so far: the dom node of each
    dom,               \* the document: attached and visible nodes, what the locator finds
    injected,          \* the DOM events the injector dispatched, in order
    optionsTimeout,    \* ST.options.timeout
    cmp,               \* the component of a future: its store, its selection, the last validation
    agent,             \* orion.js: the message buffer, seq, the flags and the requests in flight
    tests              \* the ST.Test objects, ST.Test.current and what was reported of them

vars == <<events, pendingEvent, pendingFn, paused, eventTimer, active, nextId,
          playables, timers, watchDogs, inFn, fired, now, handleExceptions, block,
          els, dom, injected, optionsTimeout, cmp, agent, tests>>

----------------------------------------------------------------------------
(* Bounds and inputs *)

MaxId == 3          \* playables created in one behaviour
MaxBatch == 2       \* entries of one events array
MaxTime == 41       \* the clock stops here
MaxTimedId == 2     \* playables created in one behaviour of SpecTimed
MaxBlockId == 3     \* playables created in one behaviour of SpecBlock
MaxPaused == 2      \* pause depth
MaxPlays == 2       \* times one playable may be played
MaxMarker == 3      \* largest value of the insertion marker pendingFn
MaxPauseId == 2     \* playables created in one behaviour of SpecPause
MaxQueue == 3       \* longest queue a pause may put a playable back into
MaxNodes == 2       \* dom nodes
MaxText == 2        \* characters of the text of a type playable
MaxExpandId == 2    \* playables enqueued by add calls in one behaviour of SpecExpand
MaxExpandFnId == 3  \* playables enqueued by add calls in one behaviour of SpecExpandFn
MaxReadyId == 2     \* playables enqueued by add calls in one behaviour of SpecReady
MaxRefId == 3       \* playables enqueued by add calls in one behaviour of SpecRef
MaxLocateId == 2    \* playables created in one behaviour of SpecLocate
MaxThrowId == 3     \* playables created in one behaviour of SpecThrow
MaxStopFnId == 3    \* playables created in one behaviour of SpecStopFn
MaxStateId == 4     \* playables created in one behaviour of SpecState
MaxZeroId == 2      \* playables created in one behaviour of SpecZero
MaxRecords == 2     \* records of the store of the component
MaxItems == 2       \* ids or indexes of one selection request
MaxArgs == 3        \* arguments of one call of and
MaxAndId == 4       \* playables created in one behaviour of SpecAnd
MaxSeq == 3         \* messages given to ST.sendMessage in one behaviour
MaxFailed == 3      \* requests that fail in one behaviour
MaxTests == 3       \* ST.Test objects constructed in one behaviour

waitInterval == 10  \* Player.waitInterval
eventDelay == 10    \* player.eventDelay, the delay of injectable events
Timeout == 20       \* the non-zero timeout given to playables
DefaultTimeout == 5000 \* ST.options.timeout as the tests leave it
typingDelay == 10   \* player.typingDelay
maxRetries == 3     \* maxRetries of orion.js

NoFn == -1          \* pendingFn === false
NoIndex == -1       \* add(events) called without index
NoDelay == -1       \* delay === undefined
NoTimeout == -1     \* timeout === undefined
NoRecord == [id |-> 0, name |-> ""]   \* null, what getById and getAt give when there is none
Undefined == ""     \* record.get of a field the record does not have
Absent == <<-1>>    \* config.ids, config.indexes when the config has none
NotNumber == -1     \* an expectedLength that is not a number
NoCmp == [store |-> <<>>, selections |-> {}, validated |-> <<>>]

Timeouts == {0, Timeout}
Entries == [kind : {"fn0", "fn1", "event"}, timeout : {Timeout}] \cup {[kind |-> "null", timeout |-> 0]}
Batches == UNION {[1..n -> Entries] : n \in 1..MaxBatch}
PauseEntries == [kind : {"fn1", "event"}, timeout : {Timeout}]
BlockBatches == UNION {[1..n -> PauseEntries] : n \in 0..1}
PauseBatches == UNION {[1..n -> PauseEntries] : n \in 1..MaxBatch}
Items(set) == UNION {[1..n -> set] : n \in 0..MaxItems}
\* the configs the state methods and the selection methods build
SelectConfigs ==
    [type : {"id"}, mode : {"select", "deselect"}, ids : Items(1..(MaxRecords + 1)),
     indexes : {Absent}, start : {0}, end : {0}, propertyValue : {Undefined}]
    \cup [type : {"index"}, mode : {"select", "deselect"}, ids : {Absent},
          indexes : Items(0..MaxRecords), start : {0}, end : {0},
          propertyValue : {Undefined}]
    \cup [type : {"range"}, mode : {"select", "deselect"}, ids : {Absent},
          indexes : {Absent}, start : 0..MaxRecords, end : 0..MaxRecords,
          propertyValue : {Undefined}]
    \cup [type : {"query"}, mode : {"select", "deselect"}, ids : {Absent},
          indexes : {Absent}, start : {0}, end : {0},
          propertyValue : {Undefined, "a", "b"}]
    \cup [type : {"all"}, mode : {"select", "deselect"}, ids : {Absent},
          indexes : {Absent}, start : {0}, end : {0}, propertyValue : {Undefined}]

StateEntry == [kind |-> "state", timeout |-> Timeout]
TailEntry == [kind |-> "tail", timeout |-> optionsTimeout]

NoCall == [ev |-> 0, wd |-> 0]

Nodes == 1..MaxNodes

\* what a target or relatedTarget config can be
NoTarget == [k |-> "none", v |-> 0]       \* undefined
Locator == [k |-> "loc", v |-> 0]         \* a locator string
BackRef(n) == [k |-> "back", v |-> n]     \* the number -n
PlayableRef(id) == [k |-> "ref", v |-> id] \* a playable
ElementRef(el) == [k |-> "el", v |-> el]  \* an ST.Element

\* the configs of a Playable and what they are when the config object omits them
Defaults == [kind |-> "event", timeout |-> optionsTimeout, type |-> "click",
             target |-> NoTarget, relatedTarget |-> NoTarget,
             available |-> "yes", visible |-> "yes",
             text |-> <<>>, key |-> "", delay |-> NoDelay,
             of |-> 0,     \* the tap or type playable whose expansion made it
             call |-> 0,   \* tail: the first playable of its call of ST.play
             arg |-> 0,    \* the place of its function among the arguments of and
             args |-> <<>>] \* the arguments of that call

Composites ==
    {[type |-> "tap", target |-> Locator]}
    \cup {[type |-> "type", target |-> Locator, text |-> t, key |-> k] :
              t \in {[i \in 1..n |-> <<"a", "b", "c">>[i]] : n \in {0, MaxText}}, k \in {"", "k"}}
ExpandBatches ==
    {<<c>> : c \in Composites}
    \cup {<<c, [type |-> "click"]>> : c \in Composites}
RefEntries ==
    {[type |-> "click", target |-> Locator],
     [type |-> "click", target |-> BackRef(1)],
     [type |-> "click", target |-> BackRef(2)],
     [type |-> "click", target |-> Locator, relatedTarget |-> BackRef(1)]}
ReadyEntries ==
    {[type |-> "click", target |-> Locator, available |-> a, visible |-> v] :
        a \in {"yes", "no"}, v \in {"yes", "no", "off"}}
    \cup {[type |-> "click", target |-> t, visible |-> v] :
              t \in {BackRef(1), [k |-> "fn", v |-> 0]}, v \in {"yes", "off"}}

----------------------------------------------------------------------------
(* The state as one record, so that handlers compose as functions *)

S == [events |-> events, pendingEvent |-> pendingEvent, pendingFn |-> pendingFn,
      paused |-> paused, eventTimer |-> eventTimer, active |-> active,
      nextId |-> nextId, playables |-> playables, timers |-> timers,
      watchDogs |-> watchDogs, inFn |-> inFn, fired |-> <<>>, block |-> block,
      els |-> els, dom |-> dom, injected |-> injected,
      focus |-> 0]     \* the node of the focus element of the component typed into

Commit(s) ==
    /\ events' = s.events
    /\ pendingEvent' = s.pendingEvent
    /\ pendingFn' = s.pendingFn
    /\ paused' = s.paused
    /\ eventTimer' = s.eventTimer
    /\ active' = s.active
    /\ nextId' = s.nextId
    /\ playables' = s.playables
    /\ timers' = s.timers
    /\ watchDogs' = s.watchDogs
    /\ inFn' = s.inFn
    /\ fired' = s.fired
    /\ block' = s.block
    /\ els' = s.els
    /\ dom' = s.dom
    /\ injected' = s.injected
    /\ UNCHANGED <<optionsTimeout, cmp, agent, tests>>

NewHandle(set) == CHOOSE h \in 1..(Cardinality(set) + 1) : \A t \in set : t.h # h

\* an entry of the events array that add skips
IsNull(cfg) == "kind" \in DOMAIN cfg /\ cfg.kind = "null"

IsFn(kind) == kind \in {"fn0", "fn1", "tail", "state"}

----------------------------------------------------------------------------
(* ST.event.Playable *)

Playable(cfg, by, behind) ==
    LET \* ST.apply(me, config)
        c == [f \in DOMAIN Defaults |-> IF f \in DOMAIN cfg THEN cfg[f] ELSE Defaults[f]]
    IN
    [state |-> "queued",
     kind |-> c.kind,
     timeout |-> IF optionsTimeout = 0 THEN 0 ELSE c.timeout,
     delay |-> IF c.delay # NoDelay THEN c.delay
               ELSE IF IsFn(c.kind) THEN 0
               ELSE IF c.type = "wait" THEN NoDelay
               ELSE eventDelay,
     waitStartTime |-> 0,
     type |-> IF IsFn(c.kind) THEN "" ELSE c.type,
     target |-> c.target,
     targetEl |-> IF c.target.k = "el" THEN c.target.v ELSE 0,
     relatedTarget |-> c.relatedTarget,
     relatedTargetEl |-> IF c.relatedTarget.k = "el" THEN c.relatedTarget.v ELSE 0,
     relatedEl |-> 0,      \* the element targetReady keeps for relatedTarget
     waitingFor |-> "",    \* what the last poll found not ready, "" when ready
     message |-> <<>>,     \* the tag and the identifier in the message of its timeout
     available |-> c.available,
     visible |-> c.visible,
     text |-> c.text,
     key |-> c.key,
     of |-> c.of,
     arg |-> c.arg,
     call |-> c.call,
     heard |-> 0,          \* tail: times the error event called it
     args |-> c.args,
     asked |-> [target |-> c.target, relatedTarget |-> c.relatedTarget,
                timeout |-> c.timeout],
                           \* the targets as given in the config
     was |-> "none",       \* what is(args) gave when the fn of a state method ran
     sub |-> FALSE,        \* the subscription made by wait is in place
     local |-> FALSE,      \* the timer of ST.timeout in the fn of a state method is armed
     timerVar |-> FALSE,   \* the variable timer of that fn is truthy
     stale |-> FALSE,      \* the Player was stopped after it was enqueued
     by |-> by,            \* the callback whose fn enqueued it, 0 at top level
     behind |-> behind,    \* the playables that were queued when it was enqueued
     addedAt |-> now,      \* time of the add call
     term |-> "none",      \* how it ended: done, timed-out, errored
     plays |-> 0,          \* times it was played
     firstNotReady |-> 0,  \* time of the first poll that found it not ready
     timedOutAt |-> 0]     \* time of the poll that timed it out

Note(s, tag, e) == [s EXCEPT !.fired = Append(@, <<tag, e>>)]

----------------------------------------------------------------------------
(* ST.Block, ST.WatchDog of the Block *)

RECURSIVE FireEnd(_)

\* Player.cleanup
Cleanup(s) ==
    [s EXCEPT !.pendingEvent = 0,
              !.pendingFn = NoFn,
              !.timers = {t \in @ : t.h # s.eventTimer},
              !.eventTimer = 0,
              !.events = <<>>]

\* Driver.stop: onStop, then the end event
Stop(s) ==
    IF s.active
    THEN FireEnd([Cleanup(s) EXCEPT
                    !.active = FALSE,
                    !.playables = [i \in DOMAIN @ |-> [@[i] EXCEPT !.stale = TRUE]]])
    ELSE s


\* Block.failure: a failed result, while the framework's done is not yet called
Failure(s, ex) ==
    IF ex # "" /\ s.block.done
    THEN [s EXCEPT !.block.results = Append(@, ex)]
    ELSE s

Finish(s) ==
    IF s.block.done
    THEN LET s0 == Failure(s, IF s.block.error THEN "exception" ELSE "")
             s1 == [s0 EXCEPT !.block.done = FALSE]
             s2 == IF s1.block.watchDog
                   THEN [s1 EXCEPT !.block.wdCallback = FALSE,
                                   !.block.wdTimer = FALSE,
                                   !.block.watchDog = FALSE]
                   ELSE s1
             s3 == IF s2.block.playing
                   THEN Stop([s2 EXCEPT !.block.playing = FALSE])
                   ELSE s2
         IN Note([s3 EXCEPT !.block.doneCalls = @ + 1], "done", 0)
    ELSE s

OnEndPlayForgets(s) == [s EXCEPT !.block.playing = FALSE]

OnEndPlay(s) ==
    LET s1 == [s EXCEPT !.block.playing = FALSE]
    IN IF ~s1.block.watchDog THEN Finish(s1) ELSE s1

\* fireEvent('end'): the Block is subscribed (single) exactly while playing
FireEnd(s) ==
    LET s1 == Note([s EXCEPT !.block.ended = @ \/ s.block.phase # "new"], "end", 0)
    IN IF s1.block.playing THEN OnEndPlay(s1) ELSE s1

OnWatchDog(s, err) ==
    LET s0 == [s EXCEPT !.block.watchDog = FALSE, !.block.reported = TRUE]
        s1 == Failure(s0, IF err THEN "watchdog" ELSE "")
    IN IF ~s1.block.playing /\ ~s1.block.calling THEN Finish(s1) ELSE s1

\* WatchDog.fire that keeps its callback after calling it
BlockFireKeeps(s, err) ==
    LET s1 == [s EXCEPT !.block.wdTimer = FALSE]
    IN IF s1.block.wdCallback
       THEN [OnWatchDog(s1, err) EXCEPT !.block.wdCallback = s.block.done]
       ELSE s1

\* WatchDog.fire of the Block's WatchDog
BlockFire(s, err) ==
    LET s1 == [s EXCEPT !.block.wdTimer = FALSE]
    IN IF s1.block.wdCallback
       THEN OnWatchDog([s1 EXCEPT !.block.wdCallback = FALSE], err)
       ELSE s1

\* ST.isPlayingEvents
IsPlayingEvents(s) == Len(s.events) # 0

\* ST.timeout taking an explicit timeout whatever ST.options.timeout is
ArmedExplicit(millisec) == millisec # 0

\* ST.timeout as used by WatchDog.set: is a timer armed for this timeout
Armed(millisec) ==
    LET ms == IF optionsTimeout # 0 THEN millisec ELSE optionsTimeout
    IN ms # 0

\* Block.invoke up to the call of the user function
InvokeCall(s, async, timeout) ==
    [s EXCEPT !.block.phase = "calling",
              !.block.done = TRUE,
              !.block.async = async,
              !.block.timeout = timeout,
              !.block.watchDog = async,
              !.block.wdCallback = async,
              !.block.wdTimer = async /\ Armed(IF timeout = NoTimeout
                                               THEN optionsTimeout
                                               ELSE timeout),
              !.block.calling = TRUE]

\* Block.invoke finishing only when neither the Player nor the WatchDog is
\* awaited, whatever Block.call caught
InvokeReturnWaits(s, threw) ==
    LET s1 == [s EXCEPT !.block.phase = "invoked",
                        !.block.error = threw,
                        !.block.calling = FALSE]
        s2 == IF IsPlayingEvents(s1) THEN [s1 EXCEPT !.block.playing = TRUE] ELSE s1
    IN IF ~s2.block.playing /\ ~s2.block.watchDog
       THEN Finish(s2)
       ELSE s2

\* Block.call and Block.invoke after the user function returned or threw
InvokeReturn(s, threw) ==
    LET s1 == [s EXCEPT !.block.phase = "invoked",
                        !.block.error = threw,
                        !.block.calling = FALSE]
        s2 == IF IsPlayingEvents(s1) THEN [s1 EXCEPT !.block.playing = TRUE] ELSE s1
    IN IF s2.block.error \/ (~s2.block.playing /\ ~s2.block.watchDog)
       THEN Finish(s2)
       ELSE s2

----------------------------------------------------------------------------
(* ST.event.Player *)

OnEnd(s) == FireEnd(s)

PlayEventSoon(s, e, delay) ==
    LET h == NewHandle(s.timers)
    IN [s EXCEPT !.timers = @ \cup {[h |-> h, ev |-> e]},
                 !.eventTimer = h]

PlayNext(s) ==
    IF s.pendingEvent = 0 /\ s.paused = 0
    THEN IF s.events = <<>>
         THEN OnEnd(s)
         ELSE LET e == Head(s.events)
              IN PlayEventSoon([s EXCEPT !.events = Tail(@),
                                         !.pendingEvent = e,
                                         !.playables[e].state = "pending"],
                               e, s.playables[e].delay)
    ELSE s

Range(q) == {q[i] : i \in 1..Len(q)}

\* add counting the places back from the item before the last one
BackReferenceOffByOne(t, queue) ==
    IF t.k = "back"
    THEN IF Len(queue) - t.v - 1 >= 0 /\ Len(queue) - t.v <= Len(queue)
         THEN PlayableRef(queue[Len(queue) - t.v])
         ELSE NoTarget
    ELSE t

\* add: a numeric target -n becomes the playable n places before the new item
BackReference(t, queue) ==
    IF t.k = "back"
    THEN IF Len(queue) - t.v >= 0 /\ Len(queue) - t.v + 1 <= Len(queue)
         THEN PlayableRef(queue[Len(queue) - t.v + 1])
         ELSE NoTarget
    ELSE t

Add(s, idx, evs) ==
    LET length == Len(s.events)
        count == Len(evs)
        nested == idx = NoIndex /\ s.pendingFn # NoFn
        index == IF idx # NoIndex THEN idx
                 ELSE IF s.pendingFn = NoFn THEN length ELSE s.pendingFn
        inserting == index < length
        queue == IF inserting THEN SubSeq(s.events, 1, index) ELSE s.events
        real == SelectSeq(evs, LAMBDA e : ~IsNull(e))
        ids == [i \in 1..Len(real) |-> s.nextId + i - 1]
        new == [i \in 1..Len(real) |->
                  LET e == Playable(real[i], s.inFn.ev, Range(s.events))
                      q == queue \o SubSeq(ids, 1, i - 1)
                  IN [e EXCEPT !.target = BackReference(@, q),
                               !.relatedTarget = BackReference(@, q)]]
        rest == IF inserting THEN SubSeq(s.events, index + 1, length) ELSE <<>>
        s1 == [s EXCEPT !.pendingFn = IF nested THEN @ + count ELSE @,
                        !.events = queue \o ids \o rest,
                        !.playables = @ \o new,
                        !.nextId = @ + Len(real)]
    IN IF s1.active /\ s1.pendingEvent = 0 THEN PlayNext(s1) ELSE s1

\* fireEvent('error'): the tails of ST.play that still listen are called
FireError(s) ==
    Note([s EXCEPT !.playables = [i \in DOMAIN @ |->
                      IF @[i].kind = "tail" /\ @[i].plays = 0 /\ @[i].heard = 0
                      THEN [@[i] EXCEPT !.heard = 1] ELSE @[i]]],
         "error", 0)

Fail(s) ==
    IF s.pendingEvent # 0 \/ s.events # <<>>
    THEN OnEnd(FireError(Cleanup(s)))
    ELSE s

DoError(s) == Fail(s)

RECURSIVE Locate(_, _, _)
\* the loop of doTimeout over the playables that src refers to: "sel" for a
\* locator string or function, "dom" for the id or tag name of an element,
\* "" when it finds neither
Locate(s, src, name) ==
    LET locator == s.playables[src][name]
        el == s.playables[src][IF name = "target" THEN "targetEl" ELSE "relatedTargetEl"]
    IN IF locator.k = "none"
       THEN IF el # 0 THEN "dom" ELSE ""
       ELSE IF locator.k = "ref"
       THEN Locate(s, locator.v, name)
       ELSE IF locator.k = "el" THEN "dom" ELSE "sel"

DoTimeout(s, e) ==
    IF s.playables[e].state \notin {"pending", "playing"}
    THEN s
    ELSE LET tag == IF s.playables[e].waitingFor = "" THEN "event"
                    ELSE s.playables[e].waitingFor
             sel == IF tag \in {"target", "relatedTarget"} THEN Locate(s, e, tag) ELSE ""
         IN Fail(Note([s EXCEPT !.playables[e].state = "done",
                                !.playables[e].message = <<tag, sel>>,
                                !.playables[e].term = "timed-out"], "timeout", e))

Pause(s) ==
    LET s1 == [s EXCEPT !.paused = @ + 1,
                        !.timers = {t \in @ : t.h # s.eventTimer},
                        !.eventTimer = 0]
        e == s.pendingEvent
    IN IF e # 0 /\ ~(s.pendingFn > 0)
       THEN [s1 EXCEPT !.events = <<e>> \o @,
                       !.playables[e].state = "queued"]
       ELSE s1

Resume(s) ==
    IF s.paused # 0
    THEN LET s1 == [s EXCEPT !.paused = @ - 1]
         IN IF s1.paused = 0 THEN PlayNext(s1) ELSE s1
    ELSE s

\* the callback given to the WatchDog by playFn
PlayFnCallback(s, w, err) ==
    IF w.failed
    THEN s
    ELSE IF err
         THEN DoTimeout(s, w.ev)
         ELSE PlayNext([s EXCEPT !.pendingEvent = 0,
                                 !.playables[w.ev].state = "done",
                                 !.playables[w.ev].term = "done"])

\* WatchDog.fire that keeps its callback
FireKeeps(s, h, err) ==
    IF \E w \in s.watchDogs : w.h = h
    THEN LET w == CHOOSE w \in s.watchDogs : w.h = h
         IN PlayFnCallback(s, w, err)
    ELSE s

\* WatchDog.fire: cancel the timer, call the callback once
Fire(s, h, err) ==
    IF \E w \in s.watchDogs : w.h = h
    THEN LET w == CHOOSE w \in s.watchDogs : w.h = h
         IN PlayFnCallback([s EXCEPT !.watchDogs = @ \ {w}], w, err)
    ELSE s

\* playFn up to the call of event.fn
PlayFn(s, e) ==
    LET h == NewHandle(s.watchDogs)
        t == s.playables[e].timeout
        w == [h |-> h, ev |-> e, timer |-> Armed(t), failed |-> FALSE]
    IN Note([s EXCEPT !.watchDogs = @ \cup {w},
                      !.pendingFn = 0,
                      !.playables[e].plays = @ + 1,
                      !.inFn = [ev |-> e, wd |-> h]], "play", e)

\* the deadline test of playEvent without the test of the timeout
ExpiredAlways(waitStartTime, timeout, t) ==
    waitStartTime # 0 /\ t - waitStartTime >= timeout

\* the deadline test of playEvent without the test of waitStartTime
ExpiredUnstamped(waitStartTime, timeout, t) ==
    timeout # 0 /\ t - waitStartTime >= timeout

\* the deadline test of playEvent
Expired(waitStartTime, timeout, t) ==
    waitStartTime # 0 /\ timeout # 0 /\ t - waitStartTime >= timeout

\* ST.Element.isDetached, ST.Element.isVisible, ST.find
IsDetached(s, el) == s.els[el] \notin s.dom.attached

IsVisible(s, el) == s.els[el] \in s.dom.visible

Find(s) == s.dom.found

\* the visibility test that ends targetReady
VisibleAsWanted(s, e, el) ==
    LET visibility == s.playables[e].visible
    IN IF el # 0 /\ visibility # "off"
       THEN IF visibility = "no" THEN ~IsVisible(s, el) ELSE IsVisible(s, el)
       ELSE TRUE

\* Playable.targetReady: the state with the elements it caches, and its result
TargetReady(s, e, name) ==
    LET p == s.playables[e]
        target == p[name]
        elName == IF name = "target" THEN "targetEl" ELSE "relatedEl"
        absent == p.available = "no"
        el == IF p[elName] = 0 /\ target.k = "ref"
              THEN s.playables[target.v][elName]
              ELSE p[elName]
        finds == \/ el # 0 /\ ~absent /\ target.k = "loc"
                 \/ el = 0 /\ target.k \in {"loc", "fn"}
        s0 == IF finds THEN Note(s, "find", e) ELSE s   \* ST.find is called
        s1 == [s0 EXCEPT !.playables[e][elName] = el]
    IN IF target.k = "none"
       THEN [s |-> s, ok |-> TRUE]
       ELSE IF el # 0
       THEN IF absent
            THEN [s |-> s1, ok |-> ~IsDetached(s1, el)]
            ELSE LET found == Find(s1)
                     s2 == IF target.k = "loc" /\ found # 0 /\ s1.els[el] # found
                           THEN [s1 EXCEPT !.els[el] = found]
                           ELSE s1
                 IN [s |-> s2, ok |-> VisibleAsWanted(s2, e, el)]
       ELSE LET found == IF target.k \in {"loc", "fn"} THEN Find(s1) ELSE 0
            IN IF found # 0
               THEN LET n == Len(s1.els) + 1
                        s2 == [s1 EXCEPT !.els = Append(@, found),
                                         !.playables[e][elName] = n]
                    IN IF absent
                       THEN [s |-> s2, ok |-> FALSE]
                       ELSE [s |-> s2, ok |-> VisibleAsWanted(s2, e, n)]
               ELSE IF absent
               THEN [s |-> s1, ok |-> TRUE]
               ELSE IF p.available # "off"
               THEN [s |-> s1, ok |-> FALSE]
               ELSE [s |-> s1, ok |-> TRUE]

\* Playable.ready and the ready function of the wait of a tap; cond is what
\* they read outside the targets: no animation runs, the gesture is complete
IsReady(s, e, cond) ==
    IF s.playables[e].type = "wait" \/ ~cond
    THEN [s |-> [s EXCEPT !.playables[e].waitingFor = IF cond THEN "" ELSE "animations"],
          ok |-> cond]
    ELSE LET r == TargetReady(s, e, "target")
             q == TargetReady(r.s, e, "relatedTarget")
         IN IF ~r.ok
            THEN [r EXCEPT !.s.playables[e].waitingFor = "target"]
            ELSE [q EXCEPT !.s.playables[e].waitingFor =
                              IF q.ok THEN "" ELSE "relatedTarget"]

\* injector.injectEvent(event, target, relatedTarget)
InjectEvent(s, e) ==
    LET p == s.playables[e]
    IN [s EXCEPT !.injected = Append(@, [id |-> e, type |-> p.type, key |-> p.key,
                                         el |-> p.targetEl,
                                         dom |-> IF p.targetEl = 0 THEN 0
                                                 ELSE s.els[p.targetEl]])]

\* expandTap giving pointerup the target of the tap instead of a back-reference
ExpandTapSearches(s, e) ==
    LET p == s.playables[e]
        tapEvents == <<
            [type |-> "pointerdown", target |-> p.target, delay |-> p.delay, of |-> e],
            [type |-> "pointerup", target |-> p.target, delay |-> 0, of |-> e],
            [type |-> "click", target |-> BackRef(2), delay |-> 0, of |-> e],
            [type |-> "wait", target |-> BackRef(2), delay |-> 0, of |-> e] >>
    IN Add(s, 0, tapEvents)

ExpandTap(s, e) ==
    LET p == s.playables[e]
        tapEvents == <<
            [type |-> "pointerdown", target |-> p.target, delay |-> p.delay, of |-> e],
            [type |-> "pointerup", target |-> BackRef(1), delay |-> 0, of |-> e],
            [type |-> "click", target |-> BackRef(2), delay |-> 0, of |-> e],
            [type |-> "wait", target |-> BackRef(2), delay |-> 0, of |-> e] >>
    IN Add(s, 0, tapEvents)

\* expandType skipping every playable without text
ExpandTypeTextOnly(s, e) ==
    LET p == s.playables[e]
        target == IF p.targetEl = 0 THEN NoTarget ELSE ElementRef(p.targetEl)
        first == IF p.delay \in {NoDelay, 0} THEN eventDelay ELSE p.delay
        keyEvents == [i \in 1..(2 * Len(p.text)) |->
                        [type |-> IF i % 2 = 1 THEN "keydown" ELSE "keyup",
                         target |-> target,
                         key |-> p.text[(i + 1) \div 2],
                         delay |-> IF i = 1 THEN first
                                   ELSE IF i % 2 = 0 THEN 0 ELSE typingDelay,
                         of |-> e]]
    IN IF p.text = <<>> THEN PlayNext(s) ELSE Add(s, 0, keyEvents)

ExpandType(s, e) ==
    LET p == s.playables[e]
        refocus == p.target.k = "loc" /\ s.focus # 0
        s1 == IF refocus THEN [s EXCEPT !.els = Append(@, s.focus)] ELSE s
        el == IF refocus THEN Len(s1.els) ELSE p.targetEl
        target == IF el = 0 THEN NoTarget ELSE ElementRef(el)
        first == IF p.delay \in {NoDelay, 0} THEN eventDelay ELSE p.delay
        keys == IF p.text # <<>> THEN p.text ELSE <<p.key>>
        keyEvents == [i \in 1..(2 * Len(keys)) |->
                     [type |-> IF i % 2 = 1 THEN "keydown" ELSE "keyup",
                      target |-> target,
                      key |-> keys[(i + 1) \div 2],
                      delay |-> IF i = 1 THEN first
                                ELSE IF i % 2 = 0 THEN 0
                                ELSE IF p.text # <<>> THEN typingDelay ELSE NoDelay,
                      of |-> e]]
    IN IF p.text = <<>> /\ p.key = ""
       THEN PlayNext(s)
       ELSE Add(s1, 0, keyEvents)

\* playEvent after isReady, r is what isReady did: "ready", "notReady" or "readyThrew"
PlayEvent(s0, e, r) ==
    LET ev == s0.playables[e]
        s == Note(s0, r, e)
    IN IF r = "readyThrew" /\ ~handleExceptions
       THEN s
       ELSE IF r # "ready"
       THEN LET s1 == IF r = "readyThrew"
                      THEN DoError([s EXCEPT !.playables[e].term = "errored"])
                      ELSE s
                s2 == [s1 EXCEPT !.playables[e].firstNotReady = IF @ = 0 THEN now ELSE @]
            IN IF Expired(ev.waitStartTime, ev.timeout, now)
               THEN DoTimeout([s2 EXCEPT !.playables[e].timedOutAt = now], e)
               ELSE PlayEventSoon(
                        [s2 EXCEPT !.playables[e].waitStartTime = IF @ = 0 THEN now ELSE @],
                        e, waitInterval)
       ELSE LET s1 == [s EXCEPT !.playables[e].state = "playing"]
            IN IF IsFn(ev.kind)
               THEN PlayFn(s1, e)
               ELSE LET s2 == [s1 EXCEPT !.pendingEvent = 0,
                                         !.playables[e].plays = @ + 1]
                        s3 == IF ev.type = "tap" THEN ExpandTap(s2, e)
                              ELSE IF ev.type = "type" THEN ExpandType(s2, e)
                              ELSE IF ev.type # "wait" THEN InjectEvent(s2, e)
                              ELSE s2
                    IN PlayNext(Note([s3 EXCEPT !.playables[e].state = "done",
                                                !.playables[e].term = "done"], "play", e))

\* playFn after event.fn returned
PlayFnReturn(s, thenable) ==
    LET e == s.inFn.ev
        s1 == [s EXCEPT !.pendingFn = NoFn, !.pendingEvent = 0, !.inFn = NoCall]
    IN IF thenable
       THEN s1
       ELSE IF s.playables[e].kind \notin {"fn1", "state"}
            THEN Fire(s1, s.inFn.wd, FALSE)
            ELSE s1

\* the fn that addState gives the playable of a state method with a wait, and
\* the rest of playFn; is: what is(args) returns
StateFn(s, is) ==
    LET e == s.inFn.ev
    IN IF is
       THEN PlayFnReturn(Fire([s EXCEPT !.playables[e].was = "true"],
                              s.inFn.wd, FALSE), FALSE)
       ELSE PlayFnReturn([s EXCEPT !.playables[e].was = "false",
                                   !.playables[e].sub = TRUE,
                                   !.playables[e].local =
                                       Armed(s.playables[e].asked.timeout),
                                   !.playables[e].timerVar = TRUE], FALSE)

\* the listener of the wait that addState generates from event names, when
\* is(args) holds, and the function that the fn of a state method hands to it
StateReport(s, e) ==
    LET s0 == [s EXCEPT !.playables[e].sub = FALSE]
    IN IF s0.playables[e].timerVar
       THEN LET s1 == [s0 EXCEPT !.playables[e].local = FALSE,
                                 !.playables[e].timerVar = FALSE]
            IN IF \E w \in s1.watchDogs : w.ev = e
               THEN Fire(s1, (CHOOSE w \in s1.watchDogs : w.ev = e).h, FALSE)
               ELSE s1
       ELSE s0

\* the function that the fn of a state method hands to ST.timeout
StateTimeout(s, e) ==
    DoTimeout([s EXCEPT !.playables[e].local = FALSE,
                        !.playables[e].timerVar = FALSE,
                        !.playables[e].sub = FALSE], e)

\* playFn when event.fn threw
PlayFnThrow(s) ==
    LET e == s.inFn.ev
        s1 == Note([s EXCEPT !.inFn = NoCall], "throw", e)
    IN IF handleExceptions
       THEN DoError([s1 EXCEPT !.watchDogs = {IF w.h = s.inFn.wd
                                                THEN [w EXCEPT !.failed = TRUE]
                                                ELSE w : w \in @},
                               !.playables[e].term = "errored"])
       ELSE s1

\* Driver.start
Start(s) ==
    IF ~s.active THEN PlayNext([s EXCEPT !.active = TRUE]) ELSE s

\* ST.play: the events and the tail function, then start
Play(s, evs) ==
    Start(Add(s, NoIndex,
              evs \o <<[kind |-> "tail", timeout |-> optionsTimeout, call |-> s.nextId]>>))

RECURSIVE LookUp(_, _, _)
\* the loop of _getRecords over ids or indexes
LookUp(store, type, items) ==
    IF items = <<>>
    THEN <<>>
    ELSE LET at == IF type = "id"
                   THEN {i \in 1..Len(store) : store[i].id = Head(items)}
                   ELSE {Head(items) + 1} \cap (1..Len(store))
             record == IF at = {} THEN NoRecord ELSE store[CHOOSE i \in at : TRUE]
         IN (IF record # NoRecord THEN <<record>> ELSE <<>>)
            \o LookUp(store, type, Tail(items))

\* ST.future.SelectionModel._getRecords
GetRecords(store, options) ==
    CASE options.type = "all" -> store
      [] options.type = "id" -> LookUp(store, "id", options.ids)
      [] options.type = "index" -> LookUp(store, "index", options.indexes)
      [] options.type = "range" ->
            LET last == IF options.end + 1 > Len(store)
                        THEN Len(store)
                        ELSE options.end + 1
            IN IF options.start + 1 > last
               THEN <<>>
               ELSE SubSeq(store, options.start + 1, last)
      [] options.type = "query" ->
            SelectSeq(store, LAMBDA record :
                /\ record.name # Undefined
                /\ record.name = options.propertyValue)

\* _validateSelections without the test of the expected length
ValidateSelectionsUncounted(c, config) ==
    LET records == GetRecords(c.store, config)
        len == Len(records)
        matchCount == Cardinality({i \in 1..len : records[i].id \in c.selections})
    IN matchCount = (IF config.mode = "select" THEN len ELSE 0)

\* ST.future.SelectionModel._validateSelections
ValidateSelections(c, config) ==
    LET records == GetRecords(c.store, config)
        expectedLength == IF config.ids # Absent /\ Len(config.ids) # 0
                          THEN Len(config.ids)
                          ELSE IF config.indexes # Absent
                               THEN Len(config.indexes)
                               ELSE NotNumber
        len == Len(records)
        matchCount == Cardinality({i \in 1..len : records[i].id \in c.selections})
        useLength == config.mode = "select"
    IN IF expectedLength # NotNumber /\ expectedLength # len
       THEN FALSE
       ELSE matchCount = (IF useLength THEN len ELSE 0)

RECURSIVE AndEvents(_, _, _, _)
\* the loop of and over its arguments from the i-th on
AndEvents(args, i, timeout, evs) ==
    IF i > Len(args)
    THEN evs
    ELSE IF args[i].k = "num"
    THEN AndEvents(args, i + 1, args[i].v, evs)
    ELSE LET fn == [kind |-> IF args[i].v > 1 THEN "fn1" ELSE "fn0",
                    arg |-> i, args |-> args]
             e == IF timeout = NoTimeout
                  THEN fn
                  ELSE [kind |-> fn.kind, arg |-> i, args |-> args,
                        timeout |-> timeout]
         IN AndEvents(args, i + 1, timeout, Append(evs, e))

\* and keeping the first number it is given as the timeout
AndKeepsFirst(s, args) ==
    LET nums == {i \in 1..Len(args) : args[i].k = "num"}
        first == IF nums = {} THEN 0 ELSE CHOOSE i \in nums : \A j \in nums : i <= j
        evs == AndEvents(args, 1, NoTimeout, <<>>)
    IN Play(s, [i \in 1..Len(evs) |->
                   IF first # 0 /\ evs[i].arg > first
                   THEN [kind |-> evs[i].kind, arg |-> evs[i].arg, args |-> args,
                         timeout |-> args[first].v]
                   ELSE evs[i]])

\* ST.future.Element.and
And(s, args) == Play(s, AndEvents(args, 1, NoTimeout, <<>>))

----------------------------------------------------------------------------
(* Initial state: a Player just constructed, a Block not yet invoked *)

InitPlayer ==
    /\ events = <<>>
    /\ pendingEvent = 0
    /\ pendingFn = NoFn
    /\ paused = 0
    /\ eventTimer = 0
    /\ active = FALSE
    /\ nextId = 1
    /\ playables = <<>>
    /\ timers = {}
    /\ watchDogs = {}
    /\ inFn = NoCall
    /\ fired = <<>>
    /\ now = 1
    /\ block = [phase |-> "new", async |-> FALSE, done |-> FALSE, watchDog |-> FALSE,
                timeout |-> NoTimeout,  \* the timeout given to the Block, if any
                wdCallback |-> FALSE, wdTimer |-> FALSE, playing |-> FALSE,
                calling |-> FALSE, error |-> FALSE,
                results |-> <<>>,     \* the failed results added to the test
                doneCalls |-> 0,      \* times the test framework's done was called
                reported |-> FALSE,   \* onWatchDog was called
                ended |-> FALSE]      \* the Player fired end after invoke
    /\ els = <<>>
    /\ dom = [attached |-> {}, visible |-> {}, found |-> 0]
    /\ injected = <<>>
    /\ agent = [messages |-> <<>>, seq |-> 0, handshakeComplete |-> FALSE,
                updatesPending |-> FALSE, retryCount |-> 0, retryPending |-> FALSE,
                terminated |-> FALSE, hasError |-> FALSE,
                requests |-> <<>>,      \* the data of the updates requests in flight
                polling |-> FALSE,      \* a messages request is in flight
                pollTimer |-> FALSE,    \* the setTimeout of failure is outstanding
                updatesTimers |-> 0,    \* outstanding setTimeouts of the updates failure
                carried |-> <<>>,       \* the data of each updates request that succeeded
                sent |-> {},            \* the seq of every message put in an updates request
                late |-> {},            \* the seq of every message accepted after the handshake
                failed |-> 0]           \* requests that failed so far
    /\ tests = [all |-> <<>>,           \* the ST.Test objects in order of construction
                current |-> 0,          \* ST.Test.current
                reported |-> <<>>]      \* the ST.status notifications, in order

Init ==
    /\ InitPlayer
    /\ handleExceptions = TRUE
    /\ optionsTimeout = DefaultTimeout
    /\ cmp = NoCmp

Idle == inFn.ev = 0 /\ ~block.calling

Room(evs, max) ==
    /\ nextId + Len(SelectSeq(evs, LAMBDA e : ~IsNull(e))) - 1 <= max
    /\ pendingFn + Len(evs) <= MaxMarker

----------------------------------------------------------------------------
(* Actions of the Player *)

\* player.start()
DoStart ==
    /\ Idle /\ ~active
    /\ Commit(Start(S))
    /\ UNCHANGED <<now, handleExceptions>>

\* player.add(events) from outside any callback
TopAdd ==
    /\ Idle
    /\ \E evs \in Batches :
          /\ Room(evs, MaxId)
          /\ Commit(Add(S, NoIndex, evs))
    /\ UNCHANGED <<now, handleExceptions>>

\* player.add(events) of injectable events with and without timeout
TimedAdd ==
    /\ Idle
    /\ \E evs \in UNION {[1..n -> [kind : {"event"}, timeout : Timeouts]] :
                           n \in 1..MaxBatch} :
          /\ Room(evs, MaxTimedId)
          /\ Commit(Add(S, NoIndex, evs))
    /\ UNCHANGED <<now, handleExceptions>>

\* time passes
Tick ==
    /\ Idle
    /\ now + waitInterval <= MaxTime
    /\ now' = now + waitInterval
    /\ fired' = <<>>
    /\ UNCHANGED <<events, pendingEvent, pendingFn, paused, eventTimer, active, nextId,
                   playables, timers, watchDogs, inFn, handleExceptions, block,
                   els, dom, injected, optionsTimeout, cmp, agent, tests>>

\* the callback of the timer t of playEventSoon: playEvent
PlayTimer(t, cond) ==
    /\ playables[t.ev].plays < MaxPlays
    /\ \E focus \in (IF playables[t.ev].type = "type" /\ playables[t.ev].target.k = "loc"
                          /\ playables[t.ev].targetEl # 0
                       THEN {0} \cup dom.attached  \* what getFocusEl and its kin may give
                       ELSE {0}) :
          LET r == IsReady([S EXCEPT !.timers = @ \ {t}, !.eventTimer = 0,
                                     !.focus = focus], t.ev, cond)
          IN Commit(PlayEvent(r.s, t.ev, IF r.ok THEN "ready" ELSE "notReady"))

\* the timer of playEventSoon fires
TimerFires ==
    /\ Idle
    /\ \E t \in timers, cond \in BOOLEAN : PlayTimer(t, cond)
    /\ UNCHANGED <<now, handleExceptions>>

\* the timer of playEventSoon fires while no animation runs and no gesture is
\* awaited: readiness is that of the targets
QuietTimerFires ==
    /\ Idle
    /\ \E t \in timers : PlayTimer(t, TRUE)
    /\ UNCHANGED <<now, handleExceptions>>

\* the timer of playEventSoon fires and the ready method of the playable throws
ReadyThrows ==
    /\ Idle
    /\ \E t \in timers :
          /\ playables[t.ev].plays < MaxPlays
          /\ ~IsFn(playables[t.ev].kind)
          /\ Commit(PlayEvent([S EXCEPT !.timers = @ \ {t}, !.eventTimer = 0],
                              t.ev, "readyThrew"))
    /\ UNCHANGED <<now, handleExceptions>>

\* the executing fn calls player.add
FnAdd ==
    /\ inFn.ev # 0 /\ playables[inFn.ev].kind # "tail"
    /\ \E evs \in Batches :
          /\ Room(evs, MaxId)
          /\ Commit(Add(S, NoIndex, evs))
    /\ UNCHANGED <<now, handleExceptions>>

\* the executing fn calls done() before it returns
FnDone ==
    /\ inFn.ev # 0 /\ playables[inFn.ev].kind = "fn1"
    /\ Commit(Fire(S, inFn.wd, FALSE))
    /\ UNCHANGED <<now, handleExceptions>>

\* the executing fn calls player.pause()
FnPause ==
    /\ inFn.ev # 0 /\ playables[inFn.ev].kind # "tail"
    /\ paused < MaxPaused /\ Len(events) < MaxQueue
    /\ Commit(Pause(S))
    /\ UNCHANGED <<now, handleExceptions>>

\* the executing fn returns; only a fn without a done parameter returns a thenable
FnReturn ==
    /\ inFn.ev # 0 /\ playables[inFn.ev].kind # "state"
    /\ \E thenable \in BOOLEAN :
          /\ thenable => playables[inFn.ev].kind = "fn0"
          /\ Commit(PlayFnReturn(S, thenable))
    /\ UNCHANGED <<now, handleExceptions>>

\* the executing fn throws
FnThrow ==
    /\ inFn.ev # 0 /\ playables[inFn.ev].kind # "tail"
    /\ Commit(PlayFnThrow(S))
    /\ UNCHANGED <<now, handleExceptions>>

\* user code calls done() later, or the returned promise resolves
Done ==
    /\ Idle
    /\ \E w \in watchDogs :
          Commit(Fire(S, w.h, FALSE))
    /\ UNCHANGED <<now, handleExceptions>>

\* user code calls done() of a callback again after that callback has completed
LateDone ==
    /\ Idle
    /\ \E e \in 1..Len(playables) :
          /\ playables[e].kind \in {"fn0", "fn1"}
          /\ playables[e].term = "done"
          /\ Commit(Fire(S, IF \E w \in watchDogs : w.ev = e
                            THEN (CHOOSE w \in watchDogs : w.ev = e).h
                            ELSE 0, FALSE))
    /\ UNCHANGED <<now, handleExceptions>>

\* user code calls done.fail() later
DoneFail ==
    /\ Idle
    /\ \E w \in watchDogs :
          Commit(Fire(Note(S, "fail", w.ev), w.h, TRUE))
    /\ UNCHANGED <<now, handleExceptions>>

\* WatchDog.onTick: the timer of a playFn WatchDog expires
WdTick ==
    /\ Idle
    /\ \E w \in watchDogs :
          /\ w.timer
          /\ Commit(Fire(Note(S, "expire", w.ev), w.h, TRUE))
    /\ UNCHANGED <<now, handleExceptions>>

\* player.pause() from outside
DoPause ==
    /\ Idle /\ paused < MaxPaused /\ Len(events) < MaxQueue
    /\ Commit(Pause(S))
    /\ UNCHANGED <<now, handleExceptions>>

\* player.resume() from outside
DoResume ==
    /\ Idle /\ paused > 0
    /\ Commit(Resume(S))
    /\ UNCHANGED <<now, handleExceptions>>

Next ==
    \/ DoStart
    \/ TopAdd
    \/ TimerFires
    \/ FnAdd
    \/ FnDone
    \/ FnReturn
    \/ FnThrow
    \/ Done
    \/ DoneFail
    \/ WdTick

Spec == Init /\ [][Next]_vars

NextTimed ==
    \/ DoStart
    \/ TimedAdd
    \/ Tick
    \/ TimerFires

SpecTimed == Init /\ [][NextTimed]_vars

\* player.add(events) of callbacks and injectable events
PauseAdd ==
    /\ Idle
    /\ \E evs \in PauseBatches :
          /\ Room(evs, MaxPauseId)
          /\ Commit(Add(S, NoIndex, evs))
    /\ UNCHANGED <<now, handleExceptions>>

\* the page changes: nodes are attached, detached, shown, hidden, and the
\* locator finds another attached node or none
DomChange ==
    /\ Idle
    /\ \E d \in [attached : SUBSET Nodes, visible : SUBSET Nodes, found : 0..MaxNodes] :
          /\ d # dom
          /\ d.visible \subseteq d.attached
          /\ d.found \in d.attached \cup {0}
          /\ dom' = d
    /\ fired' = <<>>
    /\ UNCHANGED <<events, pendingEvent, pendingFn, paused, eventTimer, active, nextId,
                   playables, timers, watchDogs, inFn, now, handleExceptions, block,
                   els, injected, optionsTimeout, cmp, agent, tests>>

\* the page changes: a node is attached and shown, and the locator finds it
DomAppear ==
    /\ Idle
    /\ \E n \in Nodes :
          /\ dom.found < n
          /\ dom' = [attached |-> dom.attached \cup {n},
                     visible |-> dom.visible \cup {n},
                     found |-> n]
    /\ fired' = <<>>
    /\ UNCHANGED <<events, pendingEvent, pendingFn, paused, eventTimer, active, nextId,
                   playables, timers, watchDogs, inFn, now, handleExceptions, block,
                   els, injected, optionsTimeout, cmp, agent, tests>>

\* playables enqueued by add calls, not by an expansion
TopLevel == {e \in 1..Len(playables) : playables[e].of = 0}

\* player.add(events) of taps, type playables and clicks
ExpandAdd ==
    /\ Idle
    /\ \E evs \in ExpandBatches :
          /\ Cardinality(TopLevel) + Len(evs) <= MaxExpandId
          /\ Commit(Add(S, NoIndex, evs))
    /\ UNCHANGED <<now, handleExceptions>>

\* player.add(events) of taps, type playables, clicks and callbacks
ExpandFnAdd ==
    /\ Idle
    /\ \E evs \in ExpandBatches \cup {<<[kind |-> "fn1"]>>} :
          /\ Cardinality(TopLevel) + Len(evs) <= MaxExpandFnId
          /\ Commit(Add(S, NoIndex, evs))
    /\ UNCHANGED <<now, handleExceptions>>

\* player.add(events) of clicks whose targets are locators and numbers
RefAdd ==
    /\ Idle
    /\ \E evs \in {<<a>> : a \in RefEntries} \cup {<<a, b>> : a, b \in RefEntries} :
          /\ Cardinality(TopLevel) + Len(evs) <= MaxRefId
          /\ Commit(Add(S, NoIndex, evs))
    /\ UNCHANGED <<now, handleExceptions>>

NextRef ==
    \/ DoStart
    \/ RefAdd
    \/ DomAppear
    \/ QuietTimerFires

SpecRef == Init /\ [][NextRef]_vars

\* player.add(events) of clicks with a timeout whose target is a locator or
\* the playable before them, and whose relatedTarget is the playable before them
LocateAdd ==
    /\ Idle
    /\ \E evs \in UNION {[1..n -> {[type |-> "click", target |-> tg, relatedTarget |-> rt,
                                     visible |-> v, timeout |-> Timeout] :
                                       tg \in {Locator, BackRef(1)},
                                       rt \in {NoTarget, BackRef(1)},
                                       v \in {"yes", "no"}}] : n \in 1..MaxBatch} :
          /\ Cardinality(TopLevel) + Len(evs) <= MaxLocateId
          /\ Commit(Add(S, NoIndex, evs))
    /\ UNCHANGED <<now, handleExceptions>>

\* clicks with locators and back-references while time passes
NextLocate ==
    \/ DoStart
    \/ LocateAdd
    \/ DomAppear
    \/ Tick
    \/ QuietTimerFires

SpecLocate == Init /\ [][NextLocate]_vars

\* player.add(events) of clicks that wait for their target to be there, to be
\* gone, to be visible or hidden
ReadyAdd ==
    /\ Idle
    /\ \E evs \in {<<a>> : a \in ReadyEntries}
                      \cup {<<a, b>> : a, b \in ReadyEntries} :
          /\ Cardinality(TopLevel) + Len(evs) <= MaxReadyId
          /\ Commit(Add(S, NoIndex, evs))
    /\ UNCHANGED <<now, handleExceptions>>

NextReady ==
    \/ DoStart
    \/ ReadyAdd
    \/ DomChange
    \/ QuietTimerFires

SpecReady == Init /\ [][NextReady]_vars

\* player.stop() while no user function executes
DoStop ==
    /\ Idle /\ active
    /\ Commit(Stop(S))
    /\ UNCHANGED <<now, handleExceptions>>

\* player.add(events) of callbacks and injectable events
StopFnAdd ==
    /\ Idle
    /\ \E evs \in PauseBatches :
          /\ Room(evs, MaxStopFnId)
          /\ Commit(Add(S, NoIndex, evs))
    /\ UNCHANGED <<now, handleExceptions>>

NextStopFn ==
    \/ DoStart
    \/ StopFnAdd
    \/ TimerFires
    \/ FnReturn
    \/ Done
    \/ DoStop

SpecStopFn == Init /\ [][NextStopFn]_vars

\* a state method of a future is called: ST.play of its playable
StatePlay ==
    /\ Idle
    /\ Room(<<StateEntry, TailEntry>>, MaxStateId)
    /\ Commit(Play(S, <<StateEntry>>))
    /\ UNCHANGED <<now, handleExceptions>>

\* user code calls ST.play with an injectable event
EventPlay ==
    /\ Idle
    /\ Room(<<[type |-> "click"], TailEntry>>, MaxStateId)
    /\ Commit(Play(S, <<[type |-> "click"]>>))
    /\ UNCHANGED <<now, handleExceptions>>

\* the fn of the playable of a state method runs
StateFnRuns ==
    /\ inFn.ev # 0 /\ playables[inFn.ev].kind = "state"
    /\ \E is \in BOOLEAN : Commit(StateFn(S, is))
    /\ UNCHANGED <<now, handleExceptions>>

\* the subscription made by wait reports and is(args) holds
StateReports ==
    /\ Idle
    /\ \E e \in 1..Len(playables) :
          /\ playables[e].sub
          /\ Commit(StateReport(Note(S, "report", e), e))
    /\ UNCHANGED <<now, handleExceptions>>

\* the timer of ST.timeout set by the fn of a state method expires
StateTimerFires ==
    /\ Idle
    /\ \E e \in 1..Len(playables) :
          /\ playables[e].local
          /\ Commit(StateTimeout(Note(S, "expire", e), e))
    /\ UNCHANGED <<now, handleExceptions>>

NextState ==
    \/ StatePlay
    \/ EventPlay
    \/ TimerFires
    \/ StateFnRuns
    \/ FnReturn
    \/ StateReports
    \/ StateTimerFires
    \/ WdTick

SpecState == Init /\ [][NextState]_vars

\* ST.options.timeout is 0 or is left alone
InitZero ==
    /\ InitPlayer
    /\ handleExceptions = TRUE
    /\ optionsTimeout \in {0, DefaultTimeout}
    /\ cmp = NoCmp

\* user code calls ST.play with a playable that has a timeout
ZeroPlay ==
    /\ Idle
    /\ \E e \in {[kind |-> "event", timeout |-> Timeout],
                 [kind |-> "fn1", timeout |-> Timeout], StateEntry} :
          /\ Room(<<e, TailEntry>>, MaxZeroId)
          /\ Commit(Play(S, <<e>>))
    /\ UNCHANGED <<now, handleExceptions>>

NextZero ==
    \/ ZeroPlay
    \/ Tick
    \/ TimerFires
    \/ StateFnRuns
    \/ FnReturn
    \/ Done
    \/ StateReports
    \/ StateTimerFires
    \/ WdTick

SpecZero == InitZero /\ [][NextZero]_vars

\* player.add(events) of callbacks with and without done parameter and of
\* injectable events, from outside any callback
ThrowAdd ==
    /\ Idle
    /\ \E evs \in UNION {[1..n -> [kind : {"fn0", "fn1", "event"}, timeout : {Timeout}]] :
                          n \in 1..MaxBatch} :
          /\ Room(evs, MaxThrowId)
          /\ Commit(Add(S, NoIndex, evs))
    /\ UNCHANGED <<now, handleExceptions>>

\* ST.options.handleExceptions is on or off
InitThrow ==
    /\ InitPlayer
    /\ handleExceptions \in BOOLEAN
    /\ optionsTimeout = DefaultTimeout
    /\ cmp = NoCmp

NextThrow ==
    \/ DoStart
    \/ ThrowAdd
    \/ QuietTimerFires
    \/ ReadyThrows
    \/ FnDone
    \/ FnReturn
    \/ FnThrow
    \/ Done
    \/ LateDone

SpecThrow == InitThrow /\ [][NextThrow]_vars

\* every variable but that of the component
playerVars ==
    <<events, pendingEvent, pendingFn, paused, eventTimer, active, nextId, playables,
      timers, watchDogs, inFn, fired, now, handleExceptions, block, els, dom, injected,
      optionsTimeout>>

\* the component has a store with records in it
InitSel ==
    /\ InitPlayer
    /\ handleExceptions = TRUE
    /\ optionsTimeout = DefaultTimeout
    /\ cmp \in [store : {st \in UNION {[1..n -> [id : 1..MaxRecords, name : {Undefined, "a"}]] :
                                           n \in 0..MaxRecords} :
                             \A i, j \in 1..Len(st) : st[i].id = st[j].id => i = j},
                selections : {{}}, validated : {<<>>}]

\* the fn of a selection method runs
DoSelectFn ==
    /\ cmp.validated = <<>>
    /\ \E config \in SelectConfigs, keepExisting \in BOOLEAN :
          LET records == GetRecords(cmp.store, config)
              ids == {records[i].id : i \in 1..Len(records)}
          IN cmp' = [cmp EXCEPT !.validated = <<>>,
                                !.selections =
                                    IF config.mode = "select"
                                    THEN (IF keepExisting THEN @ ELSE {}) \cup ids
                                    ELSE @ \ ids]
    /\ UNCHANGED <<playerVars, agent, tests>>

\* the is function of a selection state runs
Validate ==
    /\ cmp.validated = <<>>
    /\ \E config \in SelectConfigs :
          cmp' = [cmp EXCEPT !.validated =
                     <<[config |-> config, result |-> ValidateSelections(cmp, config)]>>]
    /\ UNCHANGED <<playerVars, agent, tests>>

\* the fn of the state method has the answer of is and goes on with it
IsReturn ==
    /\ cmp.validated # <<>>
    /\ cmp' = [cmp EXCEPT !.validated = <<>>]
    /\ UNCHANGED <<playerVars, agent, tests>>

NextSel ==
    \/ DoSelectFn
    \/ Validate
    \/ IsReturn

SpecSel == InitSel /\ [][NextSel]_vars

\* and(...) is called on a future by the test, outside any callback
AndCall ==
    /\ ~block.calling
    /\ inFn.ev = 0
    /\ \E args \in UNION {[1..n -> {[k |-> "num", v |-> t] : t \in Timeouts}
                                       \cup {[k |-> "fn", v |-> a] : a \in 1..2}] :
                             n \in 1..MaxArgs} :
          /\ nextId + Cardinality({i \in 1..Len(args) : args[i].k = "fn"}) <= MaxAndId
          /\ pendingFn + Len(args) + 1 <= MaxMarker + MaxArgs
          /\ Commit(And(S, args))
    /\ UNCHANGED <<now, handleExceptions>>

NextAnd == AndCall

SpecAnd == Init /\ [][NextAnd]_vars

NextExpand ==
    \/ DoStart
    \/ ExpandAdd
    \/ DomAppear
    \/ QuietTimerFires

SpecExpand == Init /\ [][NextExpand]_vars

NextExpandFn ==
    \/ DoStart
    \/ ExpandFnAdd
    \/ DomAppear
    \/ QuietTimerFires
    \/ FnReturn
    \/ Done

SpecExpandFn == Init /\ [][NextExpandFn]_vars

NextPause ==
    \/ DoStart
    \/ PauseAdd
    \/ TimerFires
    \/ FnPause
    \/ FnReturn
    \/ Done
    \/ DoPause
    \/ DoResume

SpecPause == Init /\ [][NextPause]_vars

----------------------------------------------------------------------------
(* Actions of the Block *)

\* the test framework calls wrapperFn
Invoke ==
    /\ Idle /\ block.phase = "new"
    /\ \E async \in BOOLEAN, timeout \in {NoTimeout, Timeout} :
          Commit(InvokeCall(S, async, timeout))
    /\ UNCHANGED <<now, handleExceptions>>

\* the user function calls ST.play
UserPlay ==
    /\ block.calling
    /\ \E evs \in BlockBatches :
          /\ Room(evs \o <<TailEntry>>, MaxBlockId)
          /\ Commit(Play(S, evs))
    /\ UNCHANGED <<now, handleExceptions>>

\* the user function calls done() or done.fail() before it returns
UserDone ==
    /\ block.calling /\ block.async
    /\ \E err \in BOOLEAN : Commit(BlockFire(S, err))
    /\ UNCHANGED <<now, handleExceptions>>

\* the user function returns
UserReturn ==
    /\ block.calling
    /\ Commit(InvokeReturn(S, FALSE))
    /\ UNCHANGED <<now, handleExceptions>>

\* the user function throws
UserThrow ==
    /\ block.calling /\ handleExceptions
    /\ Commit(InvokeReturn(S, TRUE))
    /\ UNCHANGED <<now, handleExceptions>>

\* user code calls done() or done.fail() after the user function returned
BlockDone ==
    /\ Idle /\ block.phase = "invoked" /\ block.async /\ block.wdCallback
    /\ \E err \in BOOLEAN : Commit(BlockFire(S, err))
    /\ UNCHANGED <<now, handleExceptions>>

\* WatchDog.onTick of the Block's WatchDog
BlockWdTick ==
    /\ Idle /\ block.wdTimer
    /\ Commit(BlockFire(S, TRUE))
    /\ UNCHANGED <<now, handleExceptions>>

\* user code of an asynchronous test calls ST.play before it calls done()
LatePlay ==
    /\ Idle /\ block.phase = "invoked" /\ block.async /\ block.wdCallback
    /\ \E evs \in BlockBatches :
          /\ Room(evs \o <<TailEntry>>, MaxBlockId)
          /\ Commit(Play(S, evs))
    /\ UNCHANGED <<now, handleExceptions>>

NextBlock ==
    \/ Invoke
    \/ UserPlay
    \/ UserDone
    \/ UserReturn
    \/ UserThrow
    \/ BlockDone
    \/ BlockWdTick
    \/ LatePlay
    \/ TimerFires
    \/ FnReturn
    \/ FnThrow
    \/ Done
    \/ WdTick

SpecBlock == Init /\ [][NextBlock]_vars

\* the Block and the Player with ST.options.timeout 0 or left alone; an armed
\* timer expires, and a user function that was called returns
SpecWatch ==
    /\ InitZero
    /\ [][NextBlock]_vars
    /\ WF_vars(BlockWdTick)
    /\ WF_vars(UserReturn)
    /\ WF_vars(FnReturn)

----------------------------------------------------------------------------
(* Vocabulary of the claims *)

Ids == 1..Len(playables)

\* played at least once: its fn was called or its event was injected
Started(e) == playables[e].plays > 0

\* the outcome the Player recorded for a playable
Terminal(e) == playables[e].state = "done" \/ playables[e].term # "none"



Has(tag, e) == \E i \in 1..Len(fired) : fired[i] = <<tag, e>>



----------------------------------------------------------------------------
(* The agent's messages to Sencha Studio: ST.sendMessage, flushUpdates, poll *)

\* flushUpdates: one updates request with the whole buffer, if nothing forbids it
FlushUpdates(a) ==
    IF /\ a.messages # <<>> /\ ~a.updatesPending /\ a.handshakeComplete
       /\ ~a.hasError /\ ~a.retryPending /\ ~a.terminated
    THEN [a EXCEPT !.updatesPending = TRUE,
                   !.messages = <<>>,
                   !.requests = Append(@, a.messages),
                   !.sent = @ \cup Range(a.messages)]
    ELSE a

\* the handshake message of the register response: flushUpdates, then poll
Handshake ==
    /\ ~agent.handshakeComplete
    /\ LET a == FlushUpdates([agent EXCEPT !.handshakeComplete = TRUE])
       IN agent' = [a EXCEPT !.polling = ~a.hasError /\ ~a.terminated]
    /\ UNCHANGED <<playerVars, cmp, tests>>

\* ST.sendMessage(message)
SendMessage ==
    /\ agent.seq < MaxSeq
    /\ ~agent.hasError
    /\ agent' = FlushUpdates([agent EXCEPT
                                 !.seq = @ + 1,
                                 !.messages = Append(@, agent.seq + 1),
                                 !.late = IF agent.handshakeComplete
                                          THEN @ \cup {agent.seq + 1} ELSE @])
    /\ UNCHANGED <<playerVars, cmp, tests>>

\* an updates request completes: its success or its failure callback
UpdatesCompletes ==
    /\ \E i \in 1..Len(agent.requests), ok \in BOOLEAN :
          LET buff == agent.requests[i]
              rest == [j \in 1..(Len(agent.requests) - 1) |->
                          agent.requests[IF j < i THEN j ELSE j + 1]]
          IN IF ok
             THEN agent' = FlushUpdates([agent EXCEPT !.requests = rest,
                                                      !.updatesPending = FALSE,
                                                      !.carried = Append(@, buff)])
             ELSE /\ agent.failed < MaxFailed
                  /\ agent' = [agent EXCEPT !.requests = rest,
                                            !.messages = buff \o @,
                                            !.updatesPending = FALSE,
                                            !.retryPending = TRUE,
                                            !.updatesTimers = @ + 1,
                                            !.failed = @ + 1]
    /\ UNCHANGED <<playerVars, cmp, tests>>

\* the setTimeout of the failure callback of an updates request fires
UpdatesRetry ==
    /\ agent.updatesTimers > 0
    /\ agent' = FlushUpdates([agent EXCEPT !.updatesTimers = @ - 1,
                                           !.retryPending = FALSE])
    /\ UNCHANGED <<playerVars, cmp, tests>>

\* the messages request completes: success (which polls again) or failure
PollCompletes ==
    /\ agent.polling
    /\ \E ok \in BOOLEAN :
          IF ok
          THEN agent' = [agent EXCEPT !.retryCount = 0,
                                      !.polling = ~agent.terminated /\ ~agent.hasError]
          ELSE /\ agent.failed < MaxFailed
               /\ agent' = [agent EXCEPT !.polling = FALSE,
                                         !.retryCount = @ + 1,
                                         !.retryPending = (agent.retryCount + 1 < maxRetries) \/ @,
                                         !.pollTimer = agent.retryCount + 1 < maxRetries,
                                         !.failed = @ + 1]
    /\ UNCHANGED <<playerVars, cmp, tests>>

\* the setTimeout of failure fires: poll
PollRetry ==
    /\ agent.pollTimer
    /\ agent' = [agent EXCEPT !.pollTimer = FALSE,
                              !.retryPending = FALSE,
                              !.polling = ~agent.hasError /\ ~agent.terminated]
    /\ UNCHANGED <<playerVars, cmp, tests>>

NextAgent ==
    \/ Handshake
    \/ SendMessage
    \/ UpdatesCompletes
    \/ UpdatesRetry
    \/ PollCompletes
    \/ PollRetry

\* every request completes and every setTimeout fires; at most MaxFailed requests fail
SpecAgent ==
    /\ Init /\ [][NextAgent]_vars
    /\ WF_vars(UpdatesCompletes) /\ WF_vars(UpdatesRetry)
    /\ WF_vars(PollCompletes) /\ WF_vars(PollRetry)

----------------------------------------------------------------------------
(* ST.Test: the suites and specs of a run *)

\* new ST.Suite(id, description) or new ST.Spec(id, description)
NewTest ==
    /\ Len(tests.all) < MaxTests
    /\ \E isSuite \in BOOLEAN :
          tests' = [tests EXCEPT
                       !.all = Append(@, [parent |-> tests.current, isSuite |-> isSuite,
                                          started |-> FALSE, stopped |-> FALSE]),
                       !.current = Len(tests.all) + 1]
    /\ UNCHANGED <<playerVars, cmp, agent>>

\* ST.Test.start, with onStart of ST.Suite and ST.Spec
RECURSIVE StartTest(_, _)
\* start that calls onStart before it starts the parent
StartTestLate(ts, t) ==
    IF ts.all[t].started
    THEN ts
    ELSE LET s1 == [ts EXCEPT !.all[t].started = TRUE,
                              !.reported = Append(@, <<"started", t>>)]
         IN IF ts.all[t].parent # 0 THEN StartTest(s1, ts.all[t].parent) ELSE s1

StartTest(ts, t) ==
    IF ts.all[t].started
    THEN ts
    ELSE LET s1 == [ts EXCEPT !.all[t].started = TRUE]
             s2 == IF ts.all[t].parent # 0 THEN StartTest(s1, ts.all[t].parent) ELSE s1
         IN [s2 EXCEPT !.reported = Append(@, <<"started", t>>)]

\* test.start()
TestStart ==
    /\ \E t \in 1..Len(tests.all) : tests' = StartTest(tests, t)
    /\ UNCHANGED <<playerVars, cmp, agent>>

\* ST.Test.stop, with onStop of ST.Suite and ST.Spec
TestStop ==
    /\ \E t \in 1..Len(tests.all) :
          /\ tests.all[t].started /\ ~tests.all[t].stopped
          /\ tests' = [tests EXCEPT !.all[t].stopped = TRUE,
                                    !.reported = Append(@, <<"finished", t>>),
                                    !.current = tests.all[t].parent]
    /\ UNCHANGED <<playerVars, cmp, agent>>

NextTest ==
    \/ NewTest
    \/ TestStart
    \/ TestStop

SpecTest == Init /\ [][NextTest]_vars

----------------------------------------------------------------------------
(* Claims *)

\* C1: at most one playable is pending or playing, and the Player has at most
\* one outstanding delay/poll timer.
C1_SingleTrack ==
    /\ Cardinality({e \in Ids : playables[e].state \in {"pending", "playing"} /\ ~Terminal(e)}) <= 1
    /\ Cardinality(timers) <= 1

\* C2: while a callback that declares done waits for done() after its fn
\* returned, the Player takes no further playable out of the queue.
C2_WaitsForDone ==
    \A p \in Ids :
       (/\ playables[p].kind = "fn1"
        /\ playables[p].state = "playing"
        /\ inFn.ev # p
        /\ \E w \in watchDogs : w.ev = p /\ ~w.failed)
       => pendingEvent = 0 /\ timers = {}

\* C3: of two playables enqueued outside any callback, the earlier one has
\* ended (or was discarded by a cleanup) before the later one starts playing.
C3_TopLevelOrder ==
    \A a \in Ids, b \in Ids :
        (/\ a < b
         /\ playables[a].by = 0
         /\ playables[b].by = 0
         /\ Started(b))
        => (Terminal(a) \/ (playables[a].state = "queued" /\ a \notin Range(events)))

\* C4: a playable enqueued by a playing callback plays before every playable
\* that was queued behind the callback at that moment, and the playables
\* enqueued by one callback play in the order in which they were enqueued.
C4_NestedOrder ==
    \A c \in Ids :
        playables[c].by # 0 =>
            /\ \A x \in playables[c].behind :
                  (playables[x].by # playables[c].by /\ Started(x)) => Started(c)
            /\ \A d \in Ids :
                  (d < c /\ playables[d].by = playables[c].by /\ Started(c))
                  => Started(d)

\* C5: every enqueued playable reaches a terminal state: once nothing is
\* scheduled any more, no playable is left without one.
C5_AllTerminate ==
    (Idle /\ timers = {} /\ watchDogs = {} /\ events = <<>> /\ pendingEvent = 0)
    => \A e \in Ids : Terminal(e)

\* C6: a handler in which a playable fails (its readiness deadline passes, its
\* WatchDog expires, its fn throws) empties the queue, clears the pending
\* playable and fires exactly one error event followed by one end event.
C6_FailureSignals ==
    (\E e \in Ids : (Has("timeout", e) /\ ~Has("fail", e)) \/ Has("throw", e))
    => /\ events = <<>>
       /\ pendingEvent = 0
       /\ SelectSeq(fired, LAMBDA f : f[1] \in {"error", "end"})
             = << <<"error", 0>>, <<"end", 0>> >>

\* C7: a Block whose user function did not throw calls the test framework's
\* done only when its WatchDog has reported (or was never created) and the
\* Player has no queued or pending playable left.
C7_DoneOnlyWhenDrained ==
    (Has("done", 0) /\ ~block.error)
    => /\ ~block.async \/ block.reported
       /\ events = <<>>
       /\ pendingEvent = 0

C9_ZeroTimeout ==
    \A e \in Ids :
        playables[e].timeout = 0 =>
            /\ playables[e].timedOutAt = 0
            /\ playables[e].term # "timed-out"
            /\ Has("ready", e) => Has("play", e) /\ playables[e].state = "done"

\* a playable without timeout is played after polls found it not ready for
\* longer than the timeout other playables have
C9_Witness ==
    \E e \in Ids :
        /\ playables[e].timeout = 0
        /\ playables[e].firstNotReady # 0
        /\ now - playables[e].firstNotReady >= Timeout
        /\ Has("play", e)

\* C10: readiness polling times a playable out only at a poll that finds it
\* not ready, at least timeout ms after the first poll that found it not ready,
\* and never at that first poll.
C10_Deadline ==
    \A e \in Ids :
        /\ Has("timeout", e) => Has("notReady", e)
        /\ playables[e].timedOutAt # 0 =>
              /\ playables[e].timeout # 0
              /\ playables[e].firstNotReady # 0
              /\ playables[e].firstNotReady < playables[e].timedOutAt
              /\ playables[e].timedOutAt - playables[e].firstNotReady
                    >= playables[e].timeout

\* a playable is timed out although its first poll came a whole timeout after
\* it was enqueued
C10_Witness ==
    \E e \in Ids :
        /\ playables[e].timedOutAt # 0
        /\ playables[e].firstNotReady - playables[e].addedAt >= playables[e].timeout

\* C11: a pause called while a playable is pending with its timer outstanding
\* cancels the timer and puts the playable back at the queue head in state
\* queued, and no playable is played while the pause count is positive.
C11_PauseHolds ==
    [][/\ \A e \in Ids :
             (/\ paused' = paused + 1
              /\ playables[e].state = "pending"
              /\ \E t \in timers : t.ev = e)
             => /\ \A t \in timers' : t.ev # e
                /\ events' # <<>>
                /\ Head(events') = e
                /\ playables'[e].state = "queued"
       /\ \A e \in Ids : playables'[e].plays > playables[e].plays => paused = 0
      ]_vars

\* C12: a pause called from inside the fn of the playing callback does not put
\* that callback back into the queue, and its fn is not executed a second time.
C12_NoReplay ==
    /\ inFn.ev # 0 => inFn.ev \notin Range(events)
    /\ \A e \in Ids : playables[e].kind = "fn1" => playables[e].plays <= 1

\* C13: once the pause count is back to 0 the drain continues: with playables
\* left in the queue, one is pending with a timer, or a callback is executing
\* or awaited.
C13_ResumeDrains ==
    (Idle /\ active /\ paused = 0 /\ events # <<>>)
    => \/ \E t \in timers : t.ev = pendingEvent
       \/ watchDogs # {}

\* the playables an expansion of t put into the queue
Subs(t) == {c \in Ids : playables[c].of = t}

\* the DOM events dispatched by the sub-playables of t, in order
Dispatched(t) == SelectSeq(injected, LAMBDA i : playables[i.id].of = t)

\* every sub-playable of the played composite t has been played
Expanded(t) ==
    /\ playables[t].plays > 0
    /\ \A c \in Subs(t) : playables[c].term = "done"

\* in the queue or picked up, not yet played
InFlight(c) ==
    /\ playables[c].plays = 0
    /\ c \in Range(events) \/ playables[c].state = "pending"

\* the step plays nothing but the first unplayed sub-playable of t
PlaysInTurn(t) ==
    \A x \in Ids :
        (playables'[x].plays > playables[x].plays /\ \E c \in Subs(t) : InFlight(c))
        => /\ x \in Subs(t)
           /\ \A c \in Subs(t) : InFlight(c) => x <= c

\* the key events a type playable is to dispatch
KeyEvents(keys) ==
    [i \in 1..(2 * Len(keys)) |->
        [type |-> IF i % 2 = 1 THEN "keydown" ELSE "keyup", key |-> keys[(i + 1) \div 2]]]


C15_TapOrder ==
    [][\A t \in Ids :
          playables[t].type = "tap" =>
             /\ (playables'[t].plays > playables[t].plays) =>
                   /\ [i \in 1..4 |-> playables'[nextId + i - 1].type]
                         = <<"pointerdown", "pointerup", "click", "wait">>
                   /\ <<pendingEvent'>> \o events'
                         = [i \in 1..4 |-> nextId + i - 1] \o events
             /\ PlaysInTurn(t)
      ]_vars

\* C16: a type playable with an N-character text dispatches keydown and keyup
\* for each character in text order, 2N events once played out, before any
\* other playable is played.
C16_TypeText ==
    [][\A t \in Ids :
          (playables[t].type = "type" /\ playables[t].text # <<>>) =>
             /\ LET log == [i \in 1..Len(Dispatched(t)') |->
                               [type |-> Dispatched(t)'[i].type, key |-> Dispatched(t)'[i].key]]
                    keys == KeyEvents(playables[t].text)
                IN Len(log) <= Len(keys) /\ \A i \in 1..Len(log) : log[i] = keys[i]
             /\ Expanded(t)' => Len(Dispatched(t)') = 2 * Len(playables[t].text)
             /\ PlaysInTurn(t)
      ]_vars

\* C17: when a type playable with a key and no text is played, exactly one
\* keydown and one keyup with that key are enqueued, and these are what it
\* dispatches; one with neither enqueues and dispatches nothing, and the head
\* of the queue is picked up.
C17_TypeKey ==
    [][\A t \in Ids :
          (/\ playables[t].type = "type"
           /\ playables[t].text = <<>>
           /\ playables'[t].plays > playables[t].plays)
          => IF playables[t].key # ""
             THEN /\ nextId' = nextId + 2
                  /\ [i \in 1..2 |-> [type |-> playables'[nextId + i - 1].type,
                                      key |-> playables'[nextId + i - 1].key]]
                        = KeyEvents(<<playables[t].key>>)
                  /\ Subs(t)' = {nextId, nextId + 1}
             ELSE /\ nextId' = nextId
                  /\ injected' = injected
                  /\ events # <<>> =>
                        /\ pendingEvent' = Head(events)
                        /\ events' = Tail(events)
      ]_vars

\* a type playable with neither text nor key was skipped and the click behind
\* it was played
C17_Witness ==
    \E t \in Ids :
        /\ playables[t].type = "type"
        /\ playables[t].text = <<>> /\ playables[t].key = ""
        /\ playables[t].plays > 0
        /\ t + 1 \in Ids
        /\ playables[t + 1].type = "click" /\ playables[t + 1].plays > 0

Line ==
    IF pendingEvent' # 0 /\ pendingEvent' # pendingEvent
          /\ pendingEvent' \notin Range(events')
    THEN <<pendingEvent'>> \o events'
    ELSE events'

\* the place of e in the sequence q, 0 when it has none
Place(q, e) == IF e \in Range(q) THEN CHOOSE i \in 1..Len(q) : q[i] = e ELSE 0

\* C18: the add call that enqueues a playable replaces its numeric target and
\* relatedTarget -N by the playable N places before it in the queue, the
\* earlier items of the call counted, and no later step changes either.
C18_BackReference ==
    [][LET \* what add makes of the target t given for the new playable e
           Promoted(t, e) ==
               IF t.k = "back"
               THEN IF Place(Line, e) - t.v >= 1 /\ t.v >= 1
                    THEN PlayableRef(Line[Place(Line, e) - t.v])
                    ELSE NoTarget
               ELSE t
       IN
       /\ \A e \in (Len(playables) + 1)..Len(playables') :
             /\ Place(Line, e) # 0
             /\ playables'[e].target = Promoted(playables'[e].asked.target, e)
             /\ playables'[e].relatedTarget
                   = Promoted(playables'[e].asked.relatedTarget, e)
       /\ \A e \in 1..Len(playables) :
             /\ playables'[e].target = playables[e].target
             /\ playables'[e].relatedTarget = playables[e].relatedTarget
      ]_vars

\* a playable given -1 refers to a playable that has been played and has left
\* the queue, and has been played itself on the element of that playable
C18_Witness ==
    \E e \in 1..Len(playables) :
        /\ playables[e].of = 0
        /\ playables[e].asked.target = BackRef(1)
        /\ playables[e].target.k = "ref"
        /\ playables[playables[e].target.v].term = "done"
        /\ playables[e].term = "done"
        /\ playables[e].targetEl = playables[playables[e].target.v].targetEl


\* C19: a poll of a playable with available: false finds it ready exactly
\* when its target is not in the document at that poll.
C19_AbsentReady ==
    [][\A e \in Ids :
          (/\ playables[e].available = "no"
           /\ playables[e].target.k = "loc"
           /\ (Has("ready", e)' \/ Has("notReady", e)'))
          => (Has("ready", e)' <=> ~(IF playables[e].targetEl # 0
                                     THEN els[playables[e].targetEl] \in dom.attached
                                     ELSE Find(S) # 0))
      ]_vars

\* C20: a poll of a playable whose target must be attached never finds it
\* ready while the element it holds for the target is not in the document.
C20_AttachedWhenReady ==
    [][\A e \in Ids :
          (/\ playables[e].available = "yes"
           /\ playables[e].target.k # "none"
           /\ Has("ready", e)')
          => /\ playables'[e].targetEl # 0
             /\ els'[playables'[e].targetEl] \in dom'.attached
      ]_vars

\* C21: every poll of a playable whose target is a function calls the
\* function, and a poll at which the function gives no node after having
\* given one finds the playable not ready.
C21_ResolverPolled ==
    [][\A e \in Ids :
          (playables[e].target.k = "fn" /\ (Has("ready", e)' \/ Has("notReady", e)'))
          => /\ Has("find", e)'
             /\ (playables[e].targetEl # 0 /\ Find(S) = 0) => Has("notReady", e)'
      ]_vars

\* C22: a stop leaves the queue empty, no playable pending and no timer of
\* playEventSoon armed, and fires end last; and no step plays a playable that
\* was enqueued before a stop.
C22_StopClears ==
    [][/\ (active /\ ~active') =>
             /\ events' = <<>>
             /\ pendingEvent' = 0
             /\ timers' = {} /\ eventTimer' = 0
             /\ fired' # <<>> /\ fired'[Len(fired')] = <<"end", 0>>
       /\ \A e \in Ids :
             playables'[e].plays > playables[e].plays => ~playables[e].stale
      ]_vars

C24_StateWait ==
    [][\A e \in Ids :
          playables[e].kind = "state" =>
             /\ (playables[e].was = "none" /\ playables'[e].was = "true")
                   => playables'[e].term = "done"
             /\ (Has("report", e)' /\ playables[e].term = "none")
                   => playables'[e].term = "done"
             /\ playables[e].term = "done"
                   => /\ playables'[e].term = "done"
                      /\ ~Has("timeout", e)'
             /\ (Has("expire", e)' /\ playables[e].term = "none")
                   => /\ playables'[e].term = "timed-out"
                      /\ Has("timeout", e)' /\ Has("error", 0)'
             /\ playables[e].term = "timed-out" => ~Has("timeout", e)'
             /\ playables'[e].term = "timed-out"
                   => ~playables'[e].sub \/ playables'[e].local
      ]_vars


\* C25: a call of and enqueues one callback playable per function argument,
\* in the order of the arguments, each with the timeout of the nearest number
\* before it among the arguments of that call, the default when there is none.
C25_AndTimeouts ==
    [][LET \* the playables that the step enqueued for the arguments of and
           NewOfAnd == {e \in (Len(playables) + 1)..Len(playables') : playables'[e].arg # 0}
       IN
       \A e \in NewOfAnd :
          LET args == playables'[e].args
              fns == {i \in 1..Len(args) : args[i].k = "fn"}
              nums == {j \in 1..(playables'[e].arg - 1) : args[j].k = "num"}
          IN /\ playables'[e].arg \in fns
             /\ IsFn(playables'[e].kind)
             /\ Cardinality({x \in NewOfAnd : playables'[x].args = args}) = Cardinality(fns)
             /\ \A x \in NewOfAnd :
                   (playables'[x].arg < playables'[e].arg) <=> (Place(Line, x) < Place(Line, e))
             /\ Place(Line, e) # 0
             /\ playables'[e].timeout =
                   IF nums = {}
                   THEN optionsTimeout
                   ELSE args[CHOOSE j \in nums : \A k \in nums : k <= j].v
      ]_vars

\* a second call of and enqueued a callback without a number before it after a
\* first call had given a number, and a callback of one call follows two numbers
C25_Witness ==
    \E e, x \in Ids :
        /\ e < x
        /\ playables[e].arg # 0 /\ playables[x].arg # 0
        /\ playables[e].args # playables[x].args
        /\ playables[e].timeout # optionsTimeout
        /\ playables[x].timeout = optionsTimeout
        /\ \E i, j \in 1..Len(playables[e].args) :
              /\ i < j /\ j < playables[e].arg
              /\ playables[e].args[i].k = "num" /\ playables[e].args[j].k = "num"
              /\ playables[e].args[i].v # playables[e].args[j].v

\* fewer records were resolved than ids or indexes were requested
Fewer(store, config) ==
    /\ config.type \in {"id", "index"}
    /\ Len(GetRecords(store, config))
          < Len(IF config.type = "id" THEN config.ids ELSE config.indexes)

\* the ids of the requested records
Requested(store, config) ==
    {GetRecords(store, config)[i].id : i \in 1..Len(GetRecords(store, config))}

\* C26: the validator answers true in select mode exactly when every requested
\* record is selected and the counts match, in deselect mode exactly when none
\* of them is selected, and false in either mode when fewer records were
\* resolved than ids or indexes were requested.
C26_Validator ==
    \A i \in 1..Len(cmp.validated) :
        LET v == cmp.validated[i]
            fewer == Fewer(cmp.store, v.config)
            requested == Requested(cmp.store, v.config)
        IN /\ fewer => ~v.result
           /\ v.config.mode = "select" =>
                 (v.result <=> (~fewer /\ requested \subseteq cmp.selections))
           /\ v.config.mode = "deselect" =>
                 (v.result <=> (~fewer /\ requested \cap cmp.selections = {}))

\* a select request by ids of which one is in no record was validated while
\* the record of the other id was selected
C26_Witness ==
    /\ cmp.validated # <<>>
    /\ cmp.validated[1].config.type = "id"
    /\ cmp.validated[1].config.mode = "select"
    /\ Len(cmp.validated[1].config.ids) = 2
    /\ Fewer(cmp.store, cmp.validated[1].config)
    /\ Requested(cmp.store, cmp.validated[1].config) # {}
    /\ Requested(cmp.store, cmp.validated[1].config) \subseteq cmp.selections
    /\ ~cmp.validated[1].result

\* C27: while ST.options.timeout is 0 nothing times out: no playable is timed
\* out by the deadline of its polls, no WatchDog of a callback and no timer of
\* ST.timeout is armed or expires, whatever timeout the playable was given.
C27_NoTimeoutAtZero ==
    optionsTimeout = 0 =>
        /\ \A e \in Ids :
              /\ playables[e].timedOutAt = 0
              /\ playables[e].term # "timed-out"
              /\ ~playables[e].local
              /\ ~Has("timeout", e) /\ ~Has("expire", e)
        /\ \A w \in watchDogs : ~w.timer

\* with ST.options.timeout 0, a playable given a timeout was polled not ready,
\* or its fn waits for done or for its state, for longer than that timeout
C27_Witness ==
    /\ optionsTimeout = 0
    /\ \E e \in Ids :
          /\ playables[e].asked.timeout = Timeout
          /\ now - playables[e].addedAt > Timeout
          /\ \/ playables[e].sub
             \/ \E w \in watchDogs : w.ev = e

\* C28: the done callback given to ST.play is invoked when every event of the
\* call has been played, or at the first error the Player fires before that,
\* and never a second time.
C28_DoneOnce ==
    [][\A t \in Ids :
          playables[t].kind = "tail" =>
              /\ playables'[t].plays + playables'[t].heard <= 1
              /\ playables'[t].plays > playables[t].plays =>
                    \A e \in playables[t].call..(t - 1) : playables[e].term = "done"
              /\ playables'[t].heard > playables[t].heard => Has("error", 0)'
              /\ (Has("error", 0)' /\ playables[t].plays + playables[t].heard = 0) =>
                    playables'[t].heard = 1
      ]_vars

\* C29: the insertion marker is set only while the fn of a callback executes:
\* once the fn has returned or thrown it is cleared, whether exceptions are
\* handled or not, and an add outside any callback appends at the tail.
C29_MarkerCleared ==
    [][/\ inFn'.ev = 0 => pendingFn' = NoFn
       /\ (inFn.ev = 0 /\ Len(playables') > Len(playables)) =>
             \A e \in (Len(playables) + 1)..Len(playables') :
                \A x \in Range(events) :
                   Place(events', x) # 0 => Place(events', x) < Place(events', e)
      ]_vars


\* C30: while the fn of a callback executes, an add advances the marker by the
\* number of playables it inserted, and the playables of the adds of that fn
\* are one block at the head of the queue in the order of the calls, also when
\* the events array has empty entries.
C30_NestedBlock ==
    [][(inFn.ev # 0 /\ inFn' = inFn /\ Len(playables') > Len(playables)) =>
          LET Nested == {e \in Range(events') : playables'[e].by = inFn.ev}
          IN /\ pendingFn' - pendingFn = Len(playables') - Len(playables)
             /\ \A e \in Nested :
                   /\ Place(events', e) <= Cardinality(Nested)
                   /\ \A x \in Nested : x < e => Place(events', x) < Place(events', e)
      ]_vars

\* C31: when the ready method of a playable throws and exceptions are handled,
\* the handler fires exactly one error event, leaves no poll of that playable
\* scheduled, and the playable is neither polled nor played in a later handler.
C31_ReadyThrowsOnce ==
    [][handleExceptions =>
          \A e \in 1..Len(playables') :
             /\ Has("readyThrew", e)' =>
                   /\ Cardinality({i \in 1..Len(fired') : fired'[i] = <<"error", 0>>}) = 1
                   /\ \A t \in timers' : t.ev # e
             /\ (e \in Ids /\ ~IsFn(playables[e].kind) /\ playables[e].term = "errored") =>
                   /\ ~(Has("ready", e)' \/ Has("notReady", e)')
                   /\ ~Has("readyThrew", e)'
                   /\ playables'[e].plays = playables[e].plays
      ]_vars

\* C32: a callback completes and hands the queue on at most once. A fn without
\* parameter completes in the step in which it returns unless it returned a
\* thenable, whose resolution completes it later; a fn with a done parameter
\* does not complete by returning but in the step of its first done(). The
\* completing step takes exactly the head of the queue (or fires end when the
\* queue is empty), and no WatchDog of a completed callback is left to report.
C32_AdvanceOnce ==
    [][\A e \in Ids :
          playables[e].kind \in {"fn0", "fn1"} =>
             /\ (inFn.ev = e /\ inFn'.ev = 0 /\ playables'[e].term # "errored") =>
                   IF playables[e].kind = "fn0"
                   THEN playables'[e].term = "done"
                           \/ \E w \in watchDogs' : w.ev = e /\ ~w.failed
                   ELSE playables'[e].term = playables[e].term
             /\ (playables[e].term = "none" /\ playables'[e].term = "done") =>
                   /\ playables[e].kind = "fn1" => inFn' = inFn
                   /\ paused = 0 =>
                         IF events = <<>>
                         THEN Has("end", 0)'
                         ELSE events' = Tail(events) /\ pendingEvent' = Head(events)
             /\ playables[e].term = "done" =>
                   /\ playables'[e].term # "none"
                   /\ \A w \in watchDogs' : w.ev = e => w.failed
      ]_vars

C32_Witness ==
    \E e \in Ids, x \in Ids :
       /\ playables[e].kind = "fn1" /\ playables[e].term = "done"
       /\ playables[x].kind = "fn0" /\ playables[x].term = "done"
       /\ e < x /\ x < Len(playables)
       /\ pendingEvent = Len(playables)
       /\ fired = <<>>

\* C33 as stated: a WatchDog calls its callback at most once, never after it
\* was destroyed, and a WatchDog whose timeout is not 0 and that is not
\* destroyed does call it.
C33_FiresOnce ==
    /\ [](block.reported => ~block.wdCallback)
    /\ []((block.phase # "new" /\ ~block.done) => ~block.wdCallback /\ ~block.wdTimer)
    /\ []((/\ block.wdCallback
           /\ IF block.timeout = NoTimeout THEN optionsTimeout # 0 ELSE block.timeout # 0)
          => <>(block.reported \/ ~block.done))

\* C33: a WatchDog calls its callback at most once, never after it was
\* destroyed, and a WatchDog for which a timer is armed (ST.options.timeout is
\* not 0 and neither is its own timeout) and that is not destroyed does call it.
C33_FiresOnceArmed ==
    /\ [](block.reported => ~block.wdCallback)
    /\ []((block.phase # "new" /\ ~block.done) => ~block.wdCallback /\ ~block.wdTimer)
    /\ []((block.wdCallback /\ block.wdTimer) => <>(block.reported \/ ~block.done))

C33_Witness ==
    /\ optionsTimeout # 0 /\ block.timeout = Timeout
    /\ block.reported /\ ~block.wdCallback
    /\ "watchdog" \in Range(block.results)
    /\ block.doneCalls = 1

\* C34: the message of a playable that timed out waiting for its target or
\* its relatedTarget names that tag and, when every playable has a target (so
\* that every chain of references ends at a locator), carries an identifier
\* of the locator at the end of the chain of playables it refers to.
C34_TimeoutNamesLocator ==
    \A e \in Ids :
       (playables[e].timedOutAt # 0 /\ playables[e].message # <<>>) =>
          /\ playables[e].message[1] \in {"target", "relatedTarget"}
          /\ (\A x \in Ids : playables[x].target.k # "none") =>
                playables[e].message[2] # ""

\* C35: a done() call or an expiry of the WatchDog of a callback that was in
\* flight when the Player was stopped changes nothing in the Player: the queue,
\* the pending playable and the timers stay as they are, and neither error nor
\* end is fired.
C35_LateDoneIgnored ==
    [][\A w \in watchDogs :
          (/\ playables[w.ev].stale
           /\ inFn.ev = 0 /\ inFn'.ev = 0
           /\ w \notin watchDogs') =>
             /\ pendingEvent' = pendingEvent
             /\ events' = events
             /\ timers' = timers
             /\ ~Has("end", 0)' /\ ~Has("error", 0)'
      ]_vars

\* C36: no playable is in the queue twice, and the pending playable is not in
\* the queue.
C36_QueueDistinct ==
    /\ \A i, j \in 1..Len(events) : events[i] = events[j] => i = j
    /\ pendingEvent # 0 => pendingEvent \notin Range(events)

\* C37: a handler that leaves the queue empty with nothing pending fires end
\* exactly once, no handler fires end twice, and end is fired only when no
\* playable is queued, pending or playing.
C37_EndOnDrain ==
    [][LET ends == Cardinality({i \in 1..Len(fired') : fired'[i] = <<"end", 0>>})
       IN /\ ends <= 1
          /\ (/\ pendingEvent # 0 \/ events # <<>>
              /\ pendingEvent' = 0 /\ events' = <<>>) => ends = 1
          /\ ends >= 1 =>
                /\ events' = <<>>
                /\ pendingEvent' = 0
                /\ \A e \in 1..Len(playables') :
                      playables'[e].state \notin {"pending", "playing"}
      ]_vars

\* C38: at most one updates request is in flight; the successful updates
\* requests carry the messages in increasing seq order, none of them twice;
\* and once the handshake is complete, no updates request is in flight and no
\* retry is pending, every message ST.sendMessage accepted has been carried.
C38_ExactlyOnce ==
    /\ Len(agent.requests) <= 1
    /\ \A i, j \in 1..Len(agent.carried) :
          \A x \in 1..Len(agent.carried[i]), y \in 1..Len(agent.carried[j]) :
             (i < j \/ (i = j /\ x < y)) => agent.carried[i][x] < agent.carried[j][y]
    /\ (/\ agent.handshakeComplete /\ agent.requests = <<>>
        /\ ~agent.retryPending /\ ~agent.pollTimer /\ agent.updatesTimers = 0)
       => \A m \in 1..agent.seq : \E i \in 1..Len(agent.carried) : m \in Range(agent.carried[i])

\* C39: when every request completes, every retry timer fires and requests
\* fail finitely often, every message that ST.sendMessage accepts after the
\* handshake is eventually put in an updates request.
C39_EventuallySent ==
    \A m \in 1..MaxSeq : (m \in agent.late) ~> (m \in agent.sent)

\* C40: of every Test the started notification is reported at most once and
\* after that of its parent, the finished notification at most once and after
\* the started notification of the same Test.
C40_StartedThenFinished ==
    \A t \in 1..Len(tests.all) :
       LET at(tag, x) == {i \in 1..Len(tests.reported) : tests.reported[i] = <<tag, x>>}
       IN /\ Cardinality(at("started", t)) <= 1
          /\ Cardinality(at("finished", t)) <= 1
          /\ \A i \in at("started", t) :
                tests.all[t].parent # 0
                   => \E j \in at("started", tests.all[t].parent) : j < i
          /\ \A i \in at("finished", t) : \E j \in at("started", t) : j < i

\* a Test whose parent had not been started was started and stopped, and its
\* parent was stopped after it
C40_Witness ==
    \E t \in 1..Len(tests.all) :
       /\ tests.all[t].parent # 0
       /\ \E i \in 1..(Len(tests.reported) - 3) :
             /\ tests.reported[i] = <<"started", tests.all[t].parent>>
             /\ tests.reported[i + 1] = <<"started", t>>
             /\ tests.reported[i + 2] = <<"finished", t>>
             /\ tests.reported[i + 3] = <<"finished", tests.all[t].parent>>

====
